---- MODULE Spec2Model ----
(***************************************************************************)
(* Model of pepe's directive processing engine: preprocess() of            *)
(* src/pepe/__init__.py with the helpers it calls.                         *)
(*                                                                         *)
(* A run is one top-level call of preprocess() on the file TopFile.  The   *)
(* lines of every file are read by the run one at a time; the text of a    *)
(* line is an input, drawn from a small alphabet when the line is          *)
(* matched, and the place where a file ends is an input as well.  Every    *)
(* file is read at most once in a run (a second entry is rejected before   *)
(* readlines()), so drawing the lines while they are processed covers      *)
(* every file content up to the bound on the number of lines.              *)
(*                                                                         *)
(* The recursion of preprocess() for #include is the sequence `calls' of   *)
(* activations.  Python passes the defines dictionary by reference and     *)
(* the includer rebinds its local name to the returned dictionary; only    *)
(* the innermost activation runs, so each activation carries the table as  *)
(* a value that is handed down on entry and handed back on return.         *)
(*                                                                         *)
(* Spec reads the lines from the alphabet Lines, SpecTyped the same runs   *)
(* from the alphabet TypedLines, SpecIncludes, with fairness, from the     *)
(* alphabet IncludeLines, and SpecSubstitute, the only one with runs that  *)
(* substitute, from SubstituteLines.  SpecDefinition is                    *)
(* parse_definition_expr                                                   *)
(* and SpecStr PreprocessorError.__str__ of src/pepe/__init__.py, and      *)
(* SpecPath get_comment_group_for_path of src/pepe/content_types.py, each  *)
(* called once on arguments drawn from bounded sets; the variable `call'   *)
(* holds that call.                                                        *)
(***************************************************************************)
EXTENDS Integers, Sequences, FiniteSets, TLC

\* Bound: total number of lines read in one run, over all files.
MaxLines == 4

\* states of a conditional frame, `SKIP, EMIT = range(2)'
SKIP == 0
EMIT == 1

----------------------------------------------------------------------------
\* Python values held by the variable table.
NoneV == [t |-> "none", n |-> 0, s |-> ""]

IntV(i) == [t |-> "int", n |-> i, s |-> ""]

BoolV(b) == [t |-> "bool", n |-> IF b THEN 1 ELSE 0, s |-> ""]

StrV(str) == [t |-> "str", n |-> 0, s |-> str]

\* the float tenths / 10
FloatV(tenths) == [t |-> "float", n |-> tenths, s |-> ""]

\* Outcome of an evaluation that raised instead of returning a value.
Raised(what) == [t |-> "raise", n |-> 0, s |-> what]

\* Python truth value of a value.
Truthy(v) ==
    CASE v.t = "none" -> FALSE
      [] v.t = "int"  -> v.n # 0
      [] v.t = "bool" -> v.n # 0
      [] v.t = "float" -> v.n # 0
      [] v.t = "str"  -> v.s # ""
      [] OTHER        -> FALSE

----------------------------------------------------------------------------
\* The input alphabet.

\* variable names that appear in the files
UserNames == {"X"}

ReservedNames == {"__FILE__", "__LINE__"}

\* names a #define / #undef / #ifdef may carry
Names == UserNames \cup ReservedNames

\* with the name of the function that expressions can call
AllNames == Names \cup {"defined"}

\* the <val> group of a #define; NoValue stands for the group not matching
NoValue == ""

ValTexts == {NoValue, "0", "1", "b"}

\* expressions of #if / #elif
ExprTexts == {"0", "1", "X", "defined('X')"}

\* targets of #include "..."
IncludeNames == {"a", "b", "c", "nx", "u"}

\* text of content lines and of #error messages
ContentTexts == {"text\n"}

ErrorTexts == {"boom"}

\* A line of a file, as the statement patterns see it: the <op> group
\* ("text" for a line that matches no pattern), the group that follows it
\* (<expr>, <var>, <fname>, <error>, or the whole line for "text"), the
\* <val> group of a #define, and for an #include which of its two patterns
\* matched.
Line(op, arg, val, form) == [op |-> op, arg |-> arg, val |-> val,
                             form |-> form]

\* no line read yet
NoLine == Line("", "", "", "")

\* the <var> and <val> groups of the #define lines
DefineArgs ==
    (UserNames \X ValTexts) \cup {<<"__FILE__", "b">>, <<"__LINE__", "0">>}

Lines ==
    {Line("text", t, "", "") : t \in ContentTexts}
    \cup {Line("define", a[1], a[2], "") : a \in DefineArgs}
    \cup {Line("undef", v, "", "") : v \in Names}
    \cup {Line("error", t, "", "") : t \in ErrorTexts}
    \cup {Line("if", e, "", "") : e \in ExprTexts}
    \cup {Line("elif", e, "", "") : e \in ExprTexts}
    \cup {Line("ifdef", v, "", "") : v \in UserNames}
    \cup {Line("ifndef", v, "", "") : v \in UserNames}
    \cup {Line("else", "", "", ""), Line("endif", "", "", "")}
    \cup {Line("include", f, "", "fname") : f \in IncludeNames}
    \cup {Line("include", v, "", "var") : v \in UserNames}

\* A second alphabet, for the typing of the values of #define and for the
\* names that #ifdef / #ifndef test.
TypedValTexts == {NoValue, "0", "0x40", "040", "4.0", "false", "False", "b"}

TypedDefineArgs == (UserNames \X TypedValTexts) \cup {<<"defined", NoValue>>}

\* its expressions of #if / #elif: a name, and a text that is no expression
TypedExprTexts == UserNames \cup {"1 +"}

TypedLines ==
    {Line("text", t, "", "") : t \in ContentTexts}
    \cup {Line("define", a[1], a[2], "") : a \in TypedDefineArgs}
    \cup {Line("undef", v, "", "") : v \in UserNames}
    \cup {Line("error", t, "", "") : t \in ErrorTexts}
    \cup {Line("if", e, "", "") : e \in TypedExprTexts}
    \cup {Line("elif", e, "", "") : e \in TypedExprTexts}
    \cup {Line("ifdef", v, "", "") : v \in UserNames \cup {"defined"}}
    \cup {Line("ifndef", v, "", "") : v \in UserNames}
    \cup {Line("else", "", "", ""), Line("endif", "", "", "")}
    \cup {Line("include", "b", "", "fname")}

\* A third alphabet, for the include graphs: each file can include each
\* file, itself and its includers too.
IncludeLines ==
    {Line("text", t, "", "") : t \in ContentTexts}
    \cup {Line("ifdef", v, "", "") : v \in UserNames}
    \cup {Line("endif", "", "", "")}
    \cup {Line("include", f, "", "fname") : f \in IncludeNames}

\* A fourth alphabet, for the substitution: content lines as sequences of
\* characters, and the names A and AB, one a part of the other.
SubstituteTexts ==
    {<<"A", "B", "-", "A">>, <<"_", "_", "L", "I", "N", "E", "_", "_">>}

SubstituteDefineArgs ==
    {<<"A", "1">>, <<"A", NoValue>>, <<"AB", "0">>, <<"AB", "A">>}

SubstituteLines ==
    {Line("text", t, "", "") : t \in SubstituteTexts}
    \cup {Line("define", a[1], a[2], "") : a \in SubstituteDefineArgs}
    \cup {Line("if", "0", "", ""), Line("endif", "", "", "")}

----------------------------------------------------------------------------
\* The file system the run sees.
ExistingFiles == {"a", "b", "inc/b", "inc/c", "inc2/c", "inc2/u"}

\* the files for which guess_content_type() finds no content type; every
\* other file has a content type with a comment group
UndeterminedFiles == {"inc2/u"}

TopFile == "a"

\* options.include_paths
IncludePaths == <<"inc", "inc2">>

\* os.path.dirname
Dirname(path) ==
    CASE path \in {"inc/b", "inc/c"}   -> "inc"
      [] path \in {"inc2/c", "inc2/u"} -> "inc2"
      [] OTHER                       -> ""

\* os.path.normpath(os.path.join(d, f)) for the plain names used here
JoinNorm(d, f) == IF d = "" THEN f ELSE d \o "/" \o f

\* pathtools.path.absolute_path
absolute_path(path) == "/cwd/" \o path

----------------------------------------------------------------------------
\* The variable table: a function from the defined names to their values.
Put(d, k, v) == [x \in (DOMAIN d) \cup {k} |-> IF x = k THEN v ELSE d[x]]

\* (variant for C29: the entry is kept)
Del_Kept(d, k) == d

\* `try: del defines[k]; except KeyError: pass'
Del(d, k) == [x \in (DOMAIN d) \ {k} |-> d[x]]

EmptyTable == [x \in {} |-> NoneV]

\* `val = eval(val, {}, {})', the text itself when eval raises
PyEvalLiteral(val) ==
    CASE val = "0"     -> IntV(0)
      [] val = "1"     -> IntV(1)
      [] val = "0x40"  -> IntV(64)
      [] val = "040"   -> IntV(32)
      [] val = "4.0"   -> FloatV(40)
      [] val = "True"  -> BoolV(TRUE)
      [] val = "False" -> BoolV(FALSE)
      [] OTHER         -> StrV(val)

\* type(v).__name__
TypeName(v) ==
    CASE v.t = "none" -> "NoneType"
      [] OTHER        -> v.t

\* the value a #define stores for its <val> group
DefineValue(val) == IF val = NoValue THEN NoneV ELSE PyEvalLiteral(val)

\* the call defined('v') in an expression: the table is the locals of the
\* eval and {'defined': ...} its globals, so the name `defined' is looked up
\* in the table first
CallDefined(v, d) ==
    IF "defined" \in DOMAIN d
    THEN Raised("'" \o TypeName(d["defined"]) \o "' object is not callable")
    ELSE BoolV(v \in DOMAIN d)

\* eval(expression, {'defined': ...}, defines)
PyEvalExpr(expression, d) ==
    CASE expression = "0" -> IntV(0)
      [] expression = "1" -> IntV(1)
      [] expression \in Names ->
            IF expression \in DOMAIN d
            THEN d[expression]
            ELSE Raised("name '" \o expression \o "' is not defined")
      [] \E v \in AllNames : expression = "defined('" \o v \o "')" ->
            CallDefined(CHOOSE v \in AllNames :
                            expression = "defined('" \o v \o "')", d)
      [] \E v \in AllNames : expression = "not defined('" \o v \o "')" ->
            LET r == CallDefined(CHOOSE v \in AllNames :
                         expression = "not defined('" \o v \o "')", d)
            IN  IF r.t = "raise" THEN r ELSE BoolV(r.n = 0)
      [] OTHER -> Raised("invalid syntax: " \o expression)

----------------------------------------------------------------------------
\* Errors.  NoError is the absence of an exception.
NoError == [kind |-> "none", message |-> "", filename |-> NoneV,
            line_number |-> NoneV]

PreprocessorError(error_message, filename, line_number) ==
    [kind |-> "PreprocessorError", message |-> error_message,
     filename |-> filename, line_number |-> line_number]

\* an exception of Python itself, which preprocess() does not catch
PythonError(kind, message) ==
    [kind |-> kind, message |-> message, filename |-> NoneV,
     line_number |-> NoneV]

\* PreprocessorError(message, defines['__FILE__'], defines['__LINE__']):
\* the lookups are made first and raise KeyError for a missing key
ErrorAt(error_message, d) ==
    IF "__FILE__" \notin DOMAIN d THEN PythonError("KeyError", "__FILE__")
    ELSE IF "__LINE__" \notin DOMAIN d
         THEN PythonError("KeyError", "__LINE__")
         ELSE PreprocessorError(error_message, d["__FILE__"], d["__LINE__"])

\* `content_types_db.get_comment_group_for_path(input_filename,
\* default_content_type)' in the prologue of preprocess(), with no default
\* content type: the exception it raises, or NoError
CommentGroupError(input_filename) ==
    IF input_filename \in UndeterminedFiles
    THEN PythonError("ValueError", "No content type defined for file path: "
                                   \o input_filename)
    ELSE NoError

\* _evaluate: the value of the expression, or the exception it raises
_evaluate(expression, d) ==
    LET r == PyEvalExpr(expression, d)
    IN  IF r.t = "raise" THEN [ok |-> FALSE, value |-> NoneV,
                               error |-> ErrorAt(r.s, d)]
        ELSE [ok |-> TRUE, value |-> r, error |-> NoError]

----------------------------------------------------------------------------
VARIABLES
    pc,            \* "next": between lines, "line": a line has been read
                   \* and is to be matched, "done", "failed"
    calls,         \* the activations of preprocess(), innermost last
    preprocessed,  \* _preprocessed_files
    buffer,        \* the StringIO made by the top-level activation: the
                   \* chunks written to it, each with the place it was
                   \* written from
    outfile,       \* the chunks written to the output_file of the
                   \* top-level activation
    error,         \* the exception that ended the run, or NoError
    nlines,        \* lines read so far in the run
    keep,          \* options.should_keep_lines
    substitute,    \* options.should_substitute
    call           \* the call of a helper function that is being evaluated
                   \* on its own (its arguments, locals and result)

vars == <<pc, calls, preprocessed, buffer, outfile, error, nlines, keep,
          substitute, call>>

\* (variant for C13: every file starts in SKIP mode)
RootFrame_Skip == <<SKIP, 0, 0>>

\* the frame every file starts with
RootFrame == <<EMIT, 0, 0>>

\* (variant for C10: the included file gets a table of its own)
NewCall_OwnTable(file, d) ==
    [file |-> file, states |-> <<<<EMIT, 0, 0>>>>, line_number |-> 0,
     line |-> NoLine, defines |-> [x \in {"__FILE__"} |-> StrV(file)],
     out |-> "buffer", blocks |-> <<>>, lone |-> FALSE, plain |-> TRUE]

\* the activation created by the prologue of preprocess() when _depth is 0;
\* `out' names the object temp_output_buffer refers to, here the StringIO.
\* `blocks', `lone' and `plain' are history variables: the open conditional
\* blocks of the file (see below), whether an #endif was read with no block
\* open, and whether every line read so far was a content line
NewCall(file, d) ==
    [file |-> file, states |-> <<RootFrame>>, line_number |-> 0,
     line |-> NoLine, defines |-> Put(d, "__FILE__", StrV(file)),
     out |-> "buffer", blocks |-> <<>>, lone |-> FALSE, plain |-> TRUE]

Cur == calls[Len(calls)]

SetCur(rec) == [calls EXCEPT ![Len(calls)] = rec]

\* (variant for C24: the mode of the top frame is not looked at)
TopSkip_Never(states) == FALSE

\* `states and states[-1][0] == SKIP'
TopSkip(states) == Len(states) > 0 /\ states[Len(states)][1] = SKIP

\* the place of the line being processed: the line numbers of the
\* activations c[1], ..., c[Len(c)], outermost first
Place(c) == [i \in 1..Len(c) |-> c[i].line_number]

\* a chunk of output: its text, and (history) the place it was written from
Chunk(text, at) == [text |-> text, at |-> at]

\* (variant for C12: no StringIO, every write goes to output_file)
Write_Unbuffered(dest, chunks) ==
    /\ buffer' = buffer
    /\ outfile' = outfile \o chunks

\* `temp_output_buffer.write(...)' where temp_output_buffer is the object
\* named dest
Write(dest, chunks) ==
    /\ buffer' = IF dest = "buffer" THEN buffer \o chunks ELSE buffer
    /\ outfile' = IF dest = "outfile" THEN outfile \o chunks ELSE outfile

\* (variant for C14: the blank line is never written)
KeepLine_Never(at) == <<>>

\* `if should_keep_lines: temp_output_buffer.write("\n")', for the line at
\* place `at'
KeepLine(at) == IF keep THEN <<Chunk("\n", at)>> ELSE <<>>

\* the defines a caller can pass on the command line
InitialDefines == {EmptyTable, Put(EmptyTable, "X", IntV(1))}

Init ==
    /\ pc = "next"
    /\ \E d \in InitialDefines : calls = <<NewCall(TopFile, d)>>
    /\ preprocessed = <<absolute_path(TopFile)>>
    /\ buffer = <<>>
    /\ outfile = <<>>
    /\ error = NoError
    /\ nlines = 0
    /\ keep \in BOOLEAN
    /\ substitute = FALSE
    /\ call = [fn |-> "preprocess"]

\* an exception leaves preprocess() and every includer
Fail(e) ==
    /\ pc' = "failed"
    /\ error' = e
    /\ UNCHANGED <<calls, preprocessed, buffer, outfile, nlines, keep,
                   substitute, call>>

\* the end of a directive line that raised nothing
Directive(rec) ==
    /\ calls' = SetCur(rec)
    /\ Write(Cur.out, KeepLine(Place(calls)))
    /\ pc' = "next"
    /\ UNCHANGED <<preprocessed, error, nlines, keep, substitute, call>>

\* (variant for C25: the loop does not advance over the line it has read)
ReadLine_Again(l) ==
    SetCur([Cur EXCEPT
        !.line = l,
        !.plain = @ /\ l.op = "text",
        !.defines = Put(@, "__LINE__", IntV(Cur.line_number))])

\* `line_number += 1; defines['__LINE__'] = line_number' for the line l
ReadLine(l) ==
    SetCur([Cur EXCEPT
        !.line = l,
        !.plain = @ /\ l.op = "text",
        !.line_number = @ + 1,
        !.defines = Put(@, "__LINE__", IntV(Cur.line_number + 1))])

\* `for line in input_lines:', the line drawn from Lines
NextLine ==
    /\ pc = "next"
    /\ nlines < MaxLines
    /\ nlines' = nlines + 1
    /\ \E l \in Lines : calls' = ReadLine(l)
    /\ pc' = "line"
    /\ UNCHANGED <<preprocessed, buffer, outfile, error, keep, substitute,
                   call>>

\* the same, the line drawn from IncludeLines
NextLineIncludes ==
    /\ pc = "next"
    /\ nlines < MaxLines
    /\ nlines' = nlines + 1
    /\ \E l \in IncludeLines : calls' = ReadLine(l)
    /\ pc' = "line"
    /\ UNCHANGED <<preprocessed, buffer, outfile, error, keep, substitute,
                   call>>

\* the same, the line drawn from SubstituteLines
NextLineSubstitute ==
    /\ pc = "next"
    /\ nlines < MaxLines
    /\ nlines' = nlines + 1
    /\ \E l \in SubstituteLines : calls' = ReadLine(l)
    /\ pc' = "line"
    /\ UNCHANGED <<preprocessed, buffer, outfile, error, keep, substitute,
                   call>>

\* the same, the line drawn from TypedLines
NextLineTyped ==
    /\ pc = "next"
    /\ nlines < MaxLines
    /\ nlines' = nlines + 1
    /\ \E l \in TypedLines : calls' = ReadLine(l)
    /\ pc' = "line"
    /\ UNCHANGED <<preprocessed, buffer, outfile, error, keep, substitute,
                   call>>

----------------------------------------------------------------------------
\* The substitution of the defines into a content line.  Where it is
\* applied, the text of a line is a sequence of characters.

\* the characters of the strings that the substitution meets: the names and
\* the values of the fourth alphabet, the reserved names and the file names
Chars(str) ==
    CASE str = "A"        -> <<"A">>
      [] str = "AB"       -> <<"A", "B">>
      [] str = "X"        -> <<"X">>
      [] str = "a"        -> <<"a">>
      [] str = "__FILE__" -> <<"_", "_", "F", "I", "L", "E", "_", "_">>
      [] str = "__LINE__" -> <<"_", "_", "L", "I", "N", "E", "_", "_">>

\* the decimal digits of a natural number
RECURSIVE Digits(_)
Digits(n) ==
    IF n < 10 THEN <<ToString(n)>>
    ELSE Append(Digits(n \div 10), ToString(n % 10))

\* the characters of `str(value)'
StrChars(value) ==
    CASE value.t = "str"   -> Chars(value.s)
      [] value.t = "int"   -> Digits(value.n)
      [] value.t = "bool"  -> IF value.n = 1 THEN <<"T", "r", "u", "e">>
                              ELSE <<"F", "a", "l", "s", "e">>
      [] value.t = "none"  -> <<"N", "o", "n", "e">>
      [] value.t = "float" -> Digits(value.n \div 10) \o <<".">>
                              \o Digits(value.n % 10)

\* `text.replace(old, new)': the occurrences of old that do not overlap,
\* from the left
RECURSIVE Replace(_, _, _)
Replace(text, old, new) ==
    IF Len(text) < Len(old) \/ Len(old) = 0 THEN text
    ELSE IF SubSeq(text, 1, Len(old)) = old
    THEN new \o Replace(SubSeq(text, Len(old) + 1, Len(text)), old, new)
    ELSE <<Head(text)>> \o Replace(Tail(text), old, new)

\* the names that can come first in `reversed(sorted(names, key=len))':
\* the longest ones; among names of one length the order is the one of
\* the dictionary, which can be any
Longest(names) ==
    {n \in names : \A m \in names : Len(Chars(n)) >= Len(Chars(m))}

\* `for name in reversed(sorted(defines, key=len)):
\*      sline = sline.replace(name, str(defines[name]))'
\* over the names still to come: the texts the loop can end with
RECURSIVE SubstituteNames(_, _, _)
SubstituteNames(sline, d, names) ==
    IF names = {} THEN {sline}
    ELSE UNION {SubstituteNames(Replace(sline, Chars(n), StrChars(d[n])),
                                d, names \ {n}) : n \in Longest(names)}

\* the texts that can be written for the content line `line'
Slines(line, d) ==
    IF substitute THEN SubstituteNames(line, d, DOMAIN d) ELSE {line}

\* a line that matches no statement pattern
Content ==
    /\ pc = "line"
    /\ Cur.line.op = "text"
    /\ LET st == Cur.states
           bl == Cur.blocks
           nb == Len(bl)
           mark(f) == IF nb = 0 THEN bl
                      ELSE [bl EXCEPT ![nb][f] = @ \cup {bl[nb].branch}]
       IN  IF Len(st) = 0
           THEN Fail(ErrorAt("superfluous #endif before this line",
                             Cur.defines))
           ELSE /\ IF st[Len(st)][1] = EMIT
                   THEN /\ \E sline \in Slines(Cur.line.arg, Cur.defines) :
                               Write(Cur.out, <<Chunk(sline, Place(calls))>>)
                        /\ calls' = SetCur([Cur EXCEPT
                                                !.blocks = mark("emitted")])
                   ELSE /\ Write(Cur.out, KeepLine(Place(calls)))
                        /\ calls' = SetCur([Cur EXCEPT
                                                !.blocks = mark("dropped")])
                /\ pc' = "next"
                /\ UNCHANGED <<preprocessed, error, nlines, keep, substitute,
                               call>>

\* #define <var> [<val>]
Define ==
    /\ pc = "line"
    /\ Cur.line.op = "define"
    /\ IF ~ TopSkip(Cur.states)
       THEN Directive([Cur EXCEPT
                !.defines = Put(@, Cur.line.arg, DefineValue(Cur.line.val))])
       ELSE Directive(Cur)

\* #undef <var>
Undef ==
    /\ pc = "line"
    /\ Cur.line.op = "undef"
    /\ IF ~ TopSkip(Cur.states)
       THEN Directive([Cur EXCEPT !.defines = Del(@, Cur.line.arg)])
       ELSE Directive(Cur)

\* #error <error>
Error ==
    /\ pc = "line"
    /\ Cur.line.op = "error"
    /\ IF ~ TopSkip(Cur.states)
       THEN Fail(ErrorAt("#error: " \o Cur.line.arg, Cur.defines))
       ELSE Directive(Cur)

----------------------------------------------------------------------------
\* Conditional blocks.  `blocks' is a history variable of the activation:
\* one record per #if/#ifdef/#ifndef of the file that no #endif has closed
\* yet, in the order of opening.
\*   encl     mode of the enclosing frame when the block was opened
\*   branch   number of the current branch (1 for the opening directive)
\*   first    number of the first branch whose condition was truthy when
\*            its directive was read, an #else counting as truthy; 0 if none
\*   else     an #else of the block has been read
\*   emitted  branches with a content line that was written
\*   dropped  branches with a content line that was suppressed
NewBlock(encl, truth) ==
    [encl |-> encl, branch |-> 1,
     first |-> IF encl = EMIT /\ truth THEN 1 ELSE 0,
     else |-> FALSE, emitted |-> {}, dropped |-> {}]

\* the block record after an #elif (isElse = FALSE) or an #else
NextBranch(b, truth, isElse) ==
    [b EXCEPT !.branch = @ + 1,
              !.first = IF b.encl = EMIT /\ @ = 0 /\ truth
                        THEN b.branch + 1 ELSE @,
              !.else = isElse]

BranchBlocks(bl, truth, isElse) ==
    IF Len(bl) = 0 THEN bl
    ELSE [bl EXCEPT ![Len(bl)] = NextBranch(@, truth, isElse)]

\* the expression an opening directive tests
OpenExpr(op, text) ==
    CASE op = "if"     -> text
      [] op = "ifdef"  -> "defined('" \o text \o "')"
      [] op = "ifndef" -> "not defined('" \o text \o "')"

\* (variant for C33: a block opened in a skipped region emits)
SkippedFrame_Emit == <<EMIT, 1, 0>>

\* `states.append((SKIP, 0, 0))' of an opening directive under a SKIP frame
SkippedFrame == <<SKIP, 0, 0>>

\* #if <expr>, #ifdef <var>, #ifndef <var>
Open ==
    /\ pc = "line"
    /\ Cur.line.op \in {"if", "ifdef", "ifndef"}
    /\ LET st == Cur.states
           d == Cur.defines
           op == Cur.line.op
           expr == OpenExpr(op, Cur.line.arg)
           ev == _evaluate(expr, d)
           truth == Truthy(PyEvalExpr(expr, d))
           push(frame, encl) ==
               Directive([Cur EXCEPT
                   !.states = Append(st, frame),
                   !.blocks = Append(@, NewBlock(encl, truth))])
       IN  IF TopSkip(st) THEN push(SkippedFrame, SKIP)
           ELSE IF ~ ev.ok
                THEN IF ev.error.kind = "KeyError"
                     THEN Fail(ErrorAt("use of undefined variable in #" \o op
                                       \o " stmt", d))
                     ELSE Fail(ev.error)
                ELSE IF Truthy(ev.value) THEN push(<<EMIT, 1, 0>>, EMIT)
                     ELSE push(<<SKIP, 0, 0>>, EMIT)

\* (variant for C2: the mode of the parent frame is not looked at)
ParentSkip_Ignored(states) == FALSE

\* `states[:-1] and states[-2][0] == SKIP'
ParentSkip(states) == Len(states) > 1 /\ states[Len(states) - 1][1] = SKIP

\* (variant for C28: an #elif does not look at hasEmitted)
HasEmitted_Ignored(st) == FALSE

\* `states[-1][1]': a branch of the innermost block has been selected
HasEmitted(st) == st[Len(st)][2] # 0

\* (variant for C34: the #elif forgets that a branch was selected)
PassedFrame_Forgets == <<SKIP, 0, 0>>

\* `states[-1] = (SKIP, 1, 0)' of an #elif that follows a selected branch
PassedFrame == <<SKIP, 1, 0>>

\* #elif <expr>
Elif ==
    /\ pc = "line"
    /\ Cur.line.op = "elif"
    /\ LET st == Cur.states
           d == Cur.defines
           expr == Cur.line.arg
           n == Len(st)
           ev == _evaluate(expr, d)
           truth == Truthy(PyEvalExpr(expr, d))
           set(frame) ==
               Directive([Cur EXCEPT
                   !.states = [st EXCEPT ![n] = frame],
                   !.blocks = BranchBlocks(@, truth, FALSE)])
       IN  IF n = 0
           THEN Fail(ErrorAt("#elif stmt without leading #if stmt", d))
           ELSE IF st[n][3] # 0
           THEN Fail(ErrorAt("illegal #elif after #else in same #if block",
                             d))
           ELSE IF HasEmitted(st) THEN set(PassedFrame)
           ELSE IF ParentSkip(st) THEN set(<<SKIP, 0, 0>>)
           ELSE IF ~ ev.ok THEN Fail(ev.error)
           ELSE IF Truthy(ev.value) THEN set(<<EMIT, 1, 0>>)
           ELSE set(<<SKIP, 0, 0>>)

\* (variant for C1: an #else that does not look at hasEmitted)
ElseFrame_IgnoresEmitted(st) ==
    IF ParentSkip(st) THEN <<SKIP, 0, 1>> ELSE <<EMIT, 1, 1>>

\* the frame an #else gives a block that has had no #else yet
ElseFrame(st) ==
    IF st[Len(st)][2] # 0 THEN <<SKIP, 1, 1>>
    ELSE IF ParentSkip(st) THEN <<SKIP, 0, 1>>
    ELSE <<EMIT, 1, 1>>

\* #else
Else ==
    /\ pc = "line"
    /\ Cur.line.op = "else"
    /\ LET st == Cur.states
           d == Cur.defines
           n == Len(st)
       IN  IF n = 0
           THEN Fail(ErrorAt("#else stmt without leading #if stmt", d))
           ELSE IF st[n][3] # 0
           THEN Fail(ErrorAt("illegal #else after #else in same #if block",
                             d))
           ELSE Directive([Cur EXCEPT
                   !.states = [st EXCEPT ![n] = ElseFrame(st)],
                   !.blocks = BranchBlocks(@, TRUE, TRUE)])

\* (variant for C23: the frame of the file itself is never popped)
Pop_KeepRoot(st) == IF Len(st) = 1 THEN st ELSE SubSeq(st, 1, Len(st) - 1)

\* `states.pop()'
Pop(st) == SubSeq(st, 1, Len(st) - 1)

\* #endif
Endif ==
    /\ pc = "line"
    /\ Cur.line.op = "endif"
    /\ LET st == Cur.states
           bl == Cur.blocks
       IN  IF Len(st) = 0
           THEN Fail(ErrorAt("#endif stmt without leading #ifstmt",
                             Cur.defines))
           ELSE Directive([Cur EXCEPT
                   !.states = Pop(st),
                   !.blocks = IF Len(bl) = 0 THEN bl
                              ELSE SubSeq(bl, 1, Len(bl) - 1),
                   !.lone = @ \/ Len(bl) = 0])

----------------------------------------------------------------------------
\* Includes.

Range(seq) == {seq[i] : i \in 1..Len(seq)}

\* (variant for C31: the last candidate that exists)
FindInclude_Last(file, f) ==
    LET dirs == <<Dirname(file)>> \o IncludePaths
        hits == {i \in 1..Len(dirs) : JoinNorm(dirs[i], f) \in ExistingFiles}
    IN  IF hits = {} THEN ""
        ELSE JoinNorm(dirs[CHOOSE i \in hits : \A j \in hits : i >= j], f)

\* the first candidate that exists, "" when the for loop finds none
FindInclude(file, f) ==
    LET dirs == <<Dirname(file)>> \o IncludePaths
        hits == {i \in 1..Len(dirs) : JoinNorm(dirs[i], f) \in ExistingFiles}
    IN  IF hits = {} THEN ""
        ELSE JoinNorm(dirs[CHOOSE i \in hits : \A j \in hits : i <= j], f)

\* (variant for C11: the recursive call is handed the output_file of the
\* top-level call instead of temp_output_buffer)
Nested_ToOutputFile(fname, c) ==
    [NewCall(fname, c.defines) EXCEPT !.out = "outfile"]

\* the activation of the recursive call made by activation c: it gets c's
\* table, and with _depth = 1 its temp_output_buffer is its output_file
\* argument, which is c's temp_output_buffer
Nested(fname, c) == [NewCall(fname, c.defines) EXCEPT !.out = c.out]

\* (variant for C8: the prologue without the test on _preprocessed_files)
Enter_NoCycleCheck(fname) ==
    /\ preprocessed' = Append(preprocessed, absolute_path(fname))
    /\ calls' = Append(calls, Nested(fname, Cur))
    /\ pc' = "next"
    /\ UNCHANGED <<buffer, outfile, error, nlines, keep, substitute, call>>

\* the recursive call of preprocess() up to its first line
Enter(fname) ==
    IF absolute_path(fname) \in Range(preprocessed)
    THEN Fail(PreprocessorError("detected recursive #include of '" \o fname
                                \o "'", NoneV, NoneV))
    ELSE /\ preprocessed' = Append(preprocessed, absolute_path(fname))
         /\ IF CommentGroupError(fname) # NoError
            THEN /\ pc' = "failed"
                 /\ error' = CommentGroupError(fname)
                 /\ UNCHANGED calls
            ELSE /\ calls' = Append(calls, Nested(fname, Cur))
                 /\ pc' = "next"
                 /\ UNCHANGED error
         /\ UNCHANGED <<buffer, outfile, nlines, keep, substitute, call>>

\* the file that the #include line of activation c opens, for
\* #include "<fname>" (form = "fname") and #include <var> (form = "var"),
\* or the exception raised before open()
IncludeTarget(c) ==
    LET d == c.defines
        form == c.line.form
        arg == c.line.arg
        f == IF form = "var" THEN d[arg] ELSE StrV(arg)
    IN  IF form = "var" /\ arg \notin DOMAIN d
        THEN [fname |-> "", error |-> PythonError("KeyError", arg)]
        ELSE IF f.t # "str"
        THEN [fname |-> "",
              error |-> PythonError("AttributeError", "startswith")]
        ELSE IF FindInclude(c.file, f.s) = ""
        THEN [fname |-> "",
              error |-> PreprocessorError("could not find #include'd file "
                                          \o f.s, NoneV, NoneV)]
        ELSE [fname |-> FindInclude(c.file, f.s), error |-> NoError]

\* an #include line, up to the first line of the included file
Include ==
    /\ pc = "line"
    /\ Cur.line.op = "include"
    /\ LET t == IncludeTarget(Cur)
       IN  IF TopSkip(Cur.states) THEN Directive(Cur)
           ELSE IF t.error # NoError THEN Fail(t.error)
           ELSE Enter(t.fname)

\* the end of the for loop: the checks on the stack, then the write of the
\* top-level activation, or the return into the includer and the rest of
\* its #include line
EndOfFile ==
    /\ pc = "next"
    /\ LET st == Cur.states
           d == Cur.defines
           n == Len(calls)
       IN  IF Len(st) > 1 THEN Fail(ErrorAt("unterminated #if block", d))
           ELSE IF Len(st) < 1
           THEN Fail(ErrorAt("superfluous #endif on or before this line", d))
           ELSE IF n = 1
           THEN /\ outfile' = outfile \o buffer
                /\ pc' = "done"
                /\ UNCHANGED <<calls, preprocessed, buffer, error, nlines,
                               keep, substitute, call>>
           ELSE /\ calls' = [SubSeq(calls, 1, n - 1) EXCEPT
                                ![n - 1].defines = d]
                /\ Write(calls[n - 1].out,
                         KeepLine(Place(SubSeq(calls, 1, n - 1))))
                /\ pc' = "next"
                /\ UNCHANGED <<preprocessed, error, nlines, keep, substitute,
                               call>>

----------------------------------------------------------------------------
Next ==
    \/ NextLine
    \/ Content
    \/ Define
    \/ Undef
    \/ Error
    \/ Open
    \/ Elif
    \/ Else
    \/ Endif
    \/ Include
    \/ EndOfFile

Spec == Init /\ [][Next]_vars

\* the same runs over the second alphabet
NextTyped ==
    \/ NextLineTyped
    \/ Content
    \/ Define
    \/ Undef
    \/ Error
    \/ Open
    \/ Elif
    \/ Else
    \/ Endif
    \/ Include
    \/ EndOfFile

SpecTyped == Init /\ [][NextTyped]_vars

\* The runs over the third alphabet, the one of the include graphs.
\* preprocess() is sequential code with no blocking call, so the
\* interpreter eventually takes a step that is possible.
\* The runs over the fourth alphabet, with and without substitution.
InitSubstitute ==
    /\ pc = "next"
    /\ \E d \in InitialDefines : calls = <<NewCall(TopFile, d)>>
    /\ preprocessed = <<absolute_path(TopFile)>>
    /\ buffer = <<>>
    /\ outfile = <<>>
    /\ error = NoError
    /\ nlines = 0
    /\ keep \in BOOLEAN
    /\ substitute \in BOOLEAN
    /\ call = [fn |-> "preprocess"]

NextSubstitute ==
    \/ NextLineSubstitute
    \/ Content
    \/ Define
    \/ Open
    \/ Endif
    \/ EndOfFile

SpecSubstitute == InitSubstitute /\ [][NextSubstitute]_vars

NextIncludes ==
    \/ NextLineIncludes
    \/ Content
    \/ Open
    \/ Endif
    \/ Include
    \/ EndOfFile

SpecIncludes == Init /\ [][NextIncludes]_vars /\ WF_vars(NextIncludes)

----------------------------------------------------------------------------
\* The parsing of the definitions given on the command line.  The text of
\* an argument is a sequence of characters.

LowerChars ==
    <<"a", "b", "c", "d", "e", "f", "g", "h", "i", "j", "k", "l", "m",
      "n", "o", "p", "q", "r", "s", "t", "u", "v", "w", "x", "y", "z">>

UpperChars ==
    <<"A", "B", "C", "D", "E", "F", "G", "H", "I", "J", "K", "L", "M",
      "N", "O", "P", "Q", "R", "S", "T", "U", "V", "W", "X", "Y", "Z">>

\* the digits of int(), by value
DigitChars ==
    <<"0", "1", "2", "3", "4", "5", "6", "7", "8", "9",
      "a", "b", "c", "d", "e", "f">>

\* str.lower() of one character
LowerChar(c) ==
    IF \E i \in 1..Len(UpperChars) : UpperChars[i] = c
    THEN LowerChars[CHOOSE i \in 1..Len(UpperChars) : UpperChars[i] = c]
    ELSE c

\* str.lower()
Lower(text) == [i \in 1..Len(text) |-> LowerChar(text[i])]

\* the Python string of a sequence of characters
RECURSIVE Str(_)
Str(text) == IF text = <<>> THEN "" ELSE Head(text) \o Str(Tail(text))

Whitespace == {" "}

RECURSIVE LStrip(_)
LStrip(text) ==
    IF text # <<>> /\ Head(text) \in Whitespace THEN LStrip(Tail(text))
    ELSE text

RECURSIVE RStrip(_)
RStrip(text) ==
    IF text # <<>> /\ text[Len(text)] \in Whitespace
    THEN RStrip(SubSeq(text, 1, Len(text) - 1))
    ELSE text

\* str.strip()
Strip(text) == RStrip(LStrip(text))

\* str.startswith(prefix)
StartsWith(text, prefix) ==
    Len(text) >= Len(prefix) /\ SubSeq(text, 1, Len(prefix)) = prefix

\* `c in text'
Contains(text, c) == \E i \in 1..Len(text) : text[i] = c

\* the place of the first c in text, 0 when there is none
Find(text, c) ==
    IF Contains(text, c)
    THEN CHOOSE i \in 1..Len(text) :
            text[i] = c /\ \A j \in 1..(i - 1) : text[j] # c
    ELSE 0

IsDigit(c, base) == \E i \in 1..base : DigitChars[i] = LowerChar(c)

DigitValue(c) ==
    (CHOOSE i \in 1..Len(DigitChars) : DigitChars[i] = LowerChar(c)) - 1

RECURSIVE DigitsValue(_, _)
DigitsValue(text, base) ==
    IF text = <<>> THEN 0
    ELSE DigitsValue(SubSeq(text, 1, Len(text) - 1), base) * base
         + DigitValue(text[Len(text)])

\* the text without its sign
Unsigned(text) ==
    IF text # <<>> /\ Head(text) \in {"+", "-"} THEN Tail(text) ELSE text

Signed(text, n) == IF text # <<>> /\ Head(text) = "-" THEN 0 - n ELSE n

\* int(token, base) for base 8, 10 and 16: white space around the number
\* and a sign are accepted, and so is the prefix of the base
PyInt(token, base) ==
    LET t == Strip(token)
        u == Unsigned(t)
        prefixed ==
            \/ base = 16 /\ StartsWith(Lower(u), <<"0", "x">>)
            \/ base = 8 /\ StartsWith(Lower(u), <<"0", "o">>)
        v == IF prefixed THEN SubSeq(u, 3, Len(u)) ELSE u
    IN  IF v # <<>> /\ \A i \in 1..Len(v) : IsDigit(v[i], base)
        THEN IntV(Signed(t, DigitsValue(v, base)))
        ELSE Raised("ValueError")

\* float(token) for a text without exponent: digits around one '.', in
\* tenths (the texts parsed here have at most one digit after the '.')
PyFloat(token) ==
    LET t == Strip(token)
        u == Unsigned(t)
        dot == Find(u, ".")
        whole == SubSeq(u, 1, dot - 1)
        frac == SubSeq(u, dot + 1, Len(u))
    IN  IF /\ dot > 0
           /\ whole \o frac # <<>>
           /\ \A i \in 1..Len(whole) : IsDigit(whole[i], 10)
           /\ \A i \in 1..Len(frac) : IsDigit(frac[i], 10)
        THEN FloatV(Signed(t, DigitsValue(whole, 10) * 10
                              + DigitsValue(SubSeq(frac, 1, 1), 10)))
        ELSE Raised("ValueError")

parse_int_token(token) ==
    IF StartsWith(token, <<"0", "x">>) \/ StartsWith(token, <<"0", "X">>)
    THEN PyInt(token, 16)
    ELSE IF StartsWith(token, <<"0">>) THEN PyInt(token, 8)
    ELSE PyInt(token, 10)

parse_bool_token(token) ==
    CASE Lower(token) = <<"t", "r", "u", "e">>      -> BoolV(TRUE)
      [] Lower(token) = <<"f", "a", "l", "s", "e">> -> BoolV(FALSE)
      [] OTHER                                      -> StrV(Str(token))

parse_number_token(token) ==
    IF Contains(token, ".") THEN PyFloat(token) ELSE parse_int_token(token)

\* (variant for C18: the expression is split at its last '=')
SplitPlace_Last(expr) ==
    IF Contains(expr, "=")
    THEN CHOOSE i \in 1..Len(expr) :
            expr[i] = "=" /\ \A j \in (i + 1)..Len(expr) : expr[j] # "="
    ELSE 0

\* `expr.split('=', 1)': the place of the '=' the text is split at, 0 when
\* the text has none
SplitPlace(expr) == Find(expr, "=")

\* The arguments parse_definition_expr is called with: white space, a
\* name, white space, and then nothing more or '=' and a value text.
NameTexts == {<<>>, <<"A">>, <<"A", "B">>}

Margins == {<<>>, <<" ">>}

ValueTexts ==
    {<<>>,
     <<"1">>,
     <<"4", "0">>,
     <<"0", "x", "4", "0">>,
     <<"0", "X", "1", "f">>,
     <<"0", "4", "0">>,
     <<"0", "8">>,
     <<"-", "7">>,
     <<"4", ".", "0">>,
     <<"0", ".", "5">>,
     <<".">>,
     <<"a", ".", "b">>,
     <<"f", "a", "l", "s", "e">>,
     <<"F", "A", "l", "s", "e">>,
     <<"T", "R", "U", "E">>,
     <<"F", "a", "l", "S">>,
     <<"a", "h", "=", "3", " ">>,
     <<"2", "e", "-", "2", "3">>}

DefaultValues == {NoneV, IntV(1)}

\* a call of parse_definition_expr(expr, default_value) at its first
\* statement; `name', `hasvalue' and `val' record what expr was built from
DefinitionCalls ==
    {[fn |-> "parse_definition_expr", at |-> "split",
      name |-> n, hasvalue |-> h, val |-> v,
      expr |-> l \o n \o r \o (IF h THEN <<"=">> \o v ELSE <<>>),
      default_value |-> dv,
      define |-> <<>>, value |-> NoneV, ret |-> <<>>, error |-> ""] :
        n \in NameTexts, l \in Margins, r \in Margins, h \in BOOLEAN,
        v \in ValueTexts, dv \in DefaultValues}

InitDefinition ==
    /\ pc = "idle"
    /\ calls = <<>>
    /\ preprocessed = <<>>
    /\ buffer = <<>>
    /\ outfile = <<>>
    /\ error = NoError
    /\ nlines = 0
    /\ keep = FALSE
    /\ substitute = FALSE
    /\ call \in {c \in DefinitionCalls : c.hasvalue \/ c.val = <<>>}

\* `define, value = expr.split('=', 1)' and the handler of its ValueError
SplitExpr ==
    /\ call.fn = "parse_definition_expr"
    /\ call.at = "split"
    /\ LET i == SplitPlace(call.expr)
       IN  call' =
             IF i > 0
             THEN [call EXCEPT !.define = SubSeq(call.expr, 1, i - 1),
                               !.value = StrV(Str(SubSeq(call.expr, i + 1,
                                                         Len(call.expr)))),
                               !.at = "value"]
             ELSE IF call.expr # <<>>
             THEN [call EXCEPT !.define = call.expr,
                               !.value = call.default_value,
                               !.at = "strip"]
             ELSE [call EXCEPT !.error = "ValueError", !.at = "raise"]
    /\ UNCHANGED <<pc, calls, preprocessed, buffer, outfile, error, nlines,
                   keep, substitute>>

\* `value = parse_number_token(value)', on ValueError parse_bool_token
TypeValue ==
    /\ call.fn = "parse_definition_expr"
    /\ call.at = "value"
    /\ LET i == SplitPlace(call.expr)
           text == SubSeq(call.expr, i + 1, Len(call.expr))
           number == parse_number_token(text)
       IN  call' = [call EXCEPT
                      !.value = IF number.t = "raise"
                                THEN parse_bool_token(text) ELSE number,
                      !.at = "strip"]
    /\ UNCHANGED <<pc, calls, preprocessed, buffer, outfile, error, nlines,
                   keep, substitute>>

\* `d = define.strip()' and the return or the raise that follows
StripDefine ==
    /\ call.fn = "parse_definition_expr"
    /\ call.at = "strip"
    /\ LET d == Strip(call.define)
       IN  call' = IF d # <<>>
                   THEN [call EXCEPT !.ret = <<Str(d), call.value>>,
                                     !.at = "return"]
                   ELSE [call EXCEPT !.error = "ValueError", !.at = "raise"]
    /\ UNCHANGED <<pc, calls, preprocessed, buffer, outfile, error, nlines,
                   keep, substitute>>

NextDefinition ==
    \/ SplitExpr
    \/ TypeValue
    \/ StripDefine

SpecDefinition == InitDefinition /\ [][NextDefinition]_vars

----------------------------------------------------------------------------
\* The content types database: ContentTypesDatabase of content_types.py on
\* a platform other than Windows (extension_case_transform_func is the
\* identity there).  Path names, patterns and file contents are sequences
\* of characters, content type labels are strings.

\* None as a content type; the labels are not empty
NoType == ""

\* no file at the path
NoFile == <<"no file">>

\* the text after the last c of text, the whole text when it has no c:
\* `text.split(c)[-1]'
RECURSIVE AfterLast(_, _)
AfterLast(text, c) ==
    IF Contains(text, c)
    THEN AfterLast(SubSeq(text, Find(text, c) + 1, Len(text)), c)
    ELSE text

\* os.path.basename
Basename(pathname) == AfterLast(pathname, "/")

\* a compiled pattern: the text lit, anchored at the start or not
Regexp(anchored, lit) == [anchored |-> anchored, lit |-> lit]

\* regexp.search(text)
Search(regexp, text) ==
    IF regexp.anchored THEN StartsWith(text, regexp.lit)
    ELSE \E i \in 1..(Len(text) + 1) :
            StartsWith(SubSeq(text, i, Len(text)), regexp.lit)

\* a database: the three maps filled by add_config() and _comment_groups
Database(fm, em, rm, cg) ==
    [filename_map |-> fm, extension_map |-> em, regexp_map |-> rm,
     comment_groups |-> cg]

\* (variant for C19: the regular expressions are tried before the
\* extension)
ByPath_RegexpFirst(db, file_basename) ==
    LET extension == <<".">> \o AfterLast(file_basename, ".")
        hits == {r \in DOMAIN db.regexp_map : Search(r, file_basename)}
    IN  IF file_basename \in DOMAIN db.filename_map
        THEN {db.filename_map[file_basename]}
        ELSE IF hits # {}
        THEN {db.regexp_map[r] : r \in hits}
        ELSE IF Contains(file_basename, ".")
                /\ extension \in DOMAIN db.extension_map
        THEN {db.extension_map[extension]}
        ELSE {NoType}

\* the content types the three rules on the path can give; the loop over
\* _regexp_map.iteritems() takes the first expression that matches, in the
\* order of the dictionary, which can be any order
ByPath(db, file_basename) ==
    LET extension == <<".">> \o AfterLast(file_basename, ".")
        hits == {r \in DOMAIN db.regexp_map : Search(r, file_basename)}
    IN  IF file_basename \in DOMAIN db.filename_map
        THEN {db.filename_map[file_basename]}
        ELSE IF Contains(file_basename, ".")
                /\ extension \in DOMAIN db.extension_map
        THEN {db.extension_map[extension]}
        ELSE IF hits # {}
        THEN {db.regexp_map[r] : r \in hits}
        ELSE {NoType}

\* the content type after the look at the content of the file
Sniffed(content_type, content) ==
    IF content # NoFile /\ StartsWith(content, <<"<", "?", "x", "m", "l">>)
    THEN "XML"
    ELSE content_type

\* the values guess_content_type(pathname) can return
guess_content_type(db, pathname, content) ==
    {Sniffed(t, content) : t \in ByPath(db, Basename(pathname))}

\* the outcome of a function: a returned value or a raised exception
Return(value) == [ok |-> TRUE, value |-> value, kind |-> "", message |-> ""]

Raise(kind, message) ==
    [ok |-> FALSE, value |-> <<>>, kind |-> kind, message |-> message]

get_comment_group(db, content_type) ==
    IF content_type \in DOMAIN db.comment_groups
    THEN Return(db.comment_groups[content_type])
    ELSE Raise("KeyError", "No comment groups for content type "
                           \o content_type \o " found.")

\* (variant for C20: the default content type is also used when the
\* content type of the path has no comment group)
ForPath_DefaultOnKeyError(db, pathname, content_type, default_content_type) ==
    IF content_type = NoType \/ (content_type \notin DOMAIN db.comment_groups
                                  /\ default_content_type # NoType)
    THEN IF default_content_type # NoType
         THEN get_comment_group(db, default_content_type)
         ELSE Raise("ValueError", "No content type defined for file path: "
                                  \o Str(pathname))
    ELSE IF get_comment_group(db, content_type).ok
         THEN get_comment_group(db, content_type)
         ELSE Raise("KeyError", "No comment groups for content type "
                       \o content_type \o " for file " \o Str(pathname)
                       \o " found")

\* get_comment_group_for_path() after its call of guess_content_type()
ForPath(db, pathname, content_type, default_content_type) ==
    IF content_type = NoType
    THEN IF default_content_type # NoType
         THEN get_comment_group(db, default_content_type)
         ELSE Raise("ValueError", "No content type defined for file path: "
                                  \o Str(pathname))
    ELSE IF get_comment_group(db, content_type).ok
         THEN get_comment_group(db, content_type)
         ELSE Raise("KeyError", "No comment groups for content type "
                       \o content_type \o " for file " \o Str(pathname)
                       \o " found")

\* The databases and paths the functions are called with.
ContentTypes == {"python", "Makefile", "structured-text"}

\* partial maps from the keys K to the content types T
Maps(K, T) == UNION {[D -> T] : D \in SUBSET K}

FilenamePatterns == {<<"M", ".", "p", "y">>}

ExtensionPatterns == {<<".", "p", "y">>}

RegexpPatterns == {Regexp(TRUE, <<"M">>), Regexp(FALSE, <<"y">>)}

\* the comment groups of the content types that have one
AllCommentGroups ==
    [t \in {"python", "Makefile", "XML"} |->
        IF t = "XML" THEN <<<<"<!--", "-->">>>> ELSE <<<<"#", "">>>>]

CommentGroups ==
    {AllCommentGroups,
     [t \in {"python", "Makefile"} |-> AllCommentGroups[t]]}

Databases ==
    {Database(fm, em, rm, cg) :
        fm \in Maps(FilenamePatterns, ContentTypes),
        em \in Maps(ExtensionPatterns, ContentTypes),
        rm \in Maps(RegexpPatterns, {"Makefile", "structured-text"}),
        cg \in CommentGroups}

Directories == {<<>>, <<"d", "/">>}

Stems == {<<"M">>, <<"a">>}

\* the dot-segments after the stem
Suffixes == {<<>>, <<"py">>, <<"x">>, <<"py", "x">>, <<"x", "py">>}

SuffixText(suffix) ==
    CASE suffix = "py" -> <<"p", "y">>
      [] suffix = "x"  -> <<"x">>

RECURSIVE Dotted(_)
Dotted(suffixes) ==
    IF suffixes = <<>> THEN <<>>
    ELSE <<".">> \o SuffixText(Head(suffixes)) \o Dotted(Tail(suffixes))

FileContents ==
    {NoFile, <<"<", "?", "x", "m", "l", " ">>, <<"<", "?", "x", "m">>}

DefaultContentTypes == {NoType, "python", "structured-text"}

\* a call of get_comment_group_for_path(pathname, default_content_type) at
\* its first statement; `stem', `suffixes' record what the path was built
\* from, `content' is what the file at the path holds
\* the orders in which add_config() can come to the regular expressions of
\* a configuration (`self._regexp_map[re.compile(pattern[1:-1])] =
\* content_type'); the dictionary does not keep the order
RegistrationOrders ==
    {o \in [1..Cardinality(RegexpPatterns) -> RegexpPatterns] :
        Range(o) = RegexpPatterns}

\* `registered' is a history variable: the regular expressions in the order
\* of their registration, those of db among them
PathCalls ==
    {[fn |-> "get_comment_group_for_path", at |-> "guess", db |-> db,
      registered |-> o, stem |-> st, suffixes |-> su,
      pathname |-> dir \o st \o Dotted(su), content |-> c,
      default_content_type |-> dct, content_type |-> NoType,
      out |-> Return(<<>>)] :
        db \in Databases, o \in RegistrationOrders, dir \in Directories,
        st \in Stems, su \in Suffixes, c \in FileContents,
        dct \in DefaultContentTypes}

InitPath ==
    /\ pc = "idle"
    /\ calls = <<>>
    /\ preprocessed = <<>>
    /\ buffer = <<>>
    /\ outfile = <<>>
    /\ error = NoError
    /\ nlines = 0
    /\ keep = FALSE
    /\ substitute = FALSE
    /\ call \in PathCalls

\* `content_type = self.guess_content_type(pathname)'
GuessContentType ==
    /\ call.fn = "get_comment_group_for_path"
    /\ call.at = "guess"
    /\ \E t \in guess_content_type(call.db, call.pathname, call.content) :
          call' = [call EXCEPT !.content_type = t, !.at = "group"]
    /\ UNCHANGED <<pc, calls, preprocessed, buffer, outfile, error, nlines,
                   keep, substitute>>

\* the rest of get_comment_group_for_path()
CommentGroupForPath ==
    /\ call.fn = "get_comment_group_for_path"
    /\ call.at = "group"
    /\ LET o == ForPath(call.db, call.pathname, call.content_type,
                        call.default_content_type)
       IN  call' = [call EXCEPT !.out = o,
                                !.at = IF o.ok THEN "return" ELSE "raise"]
    /\ UNCHANGED <<pc, calls, preprocessed, buffer, outfile, error, nlines,
                   keep, substitute>>

NextPath ==
    \/ GuessContentType
    \/ CommentGroupForPath

SpecPath == InitPath /\ [][NextPath]_vars

----------------------------------------------------------------------------
\* The rendering of a PreprocessorError, str(ex), as main() writes it after
\* "pepe: error: ".

\* Python's str() of a value
PyStr(v) ==
    CASE v.t = "str"  -> v.s
      [] v.t = "int"  -> ToString(v.n)
      [] v.t = "bool" -> IF v.n = 1 THEN "True" ELSE "False"
      [] v.t = "none" -> "None"

RECURSIVE Join(_, _)
\* `sep.join(parts)'
Join(sep, parts) ==
    IF Len(parts) = 0 THEN ""
    ELSE IF Len(parts) = 1 THEN parts[1]
    ELSE parts[1] \o sep \o Join(sep, Tail(parts))

\* `[str(f) for f in fields if f]'
StrOfTruthy(fields) ==
    LET F[i \in 0..Len(fields)] ==
            IF i = 0 THEN <<>>
            ELSE IF Truthy(fields[i]) THEN Append(F[i - 1], PyStr(fields[i]))
            ELSE F[i - 1]
    IN  F[Len(fields)]

\* (variant for C22: the fields are joined whether they are present or not)
Prefix_Unfiltered(self) ==
    Join(":", <<PyStr(self.filename), PyStr(self.line_number)>>)

\* `s = ":".join([str(f) for f in [self.filename, self.line_number] if f])'
Prefix(self) == Join(":", StrOfTruthy(<<self.filename, self.line_number>>))

\* PreprocessorError.__str__
__str__(self) ==
    LET s == Prefix(self)
    IN  (IF s # "" THEN s \o ": " ELSE s) \o self.error_message

\* the arguments PreprocessorError.__init__ is given
ErrorMessages == {"whatever", "unterminated #if block", "#error: boom"}

ErrorFilenames == {NoneV, StrV(""), StrV("somefile.py"), StrV("inc/b")}

ErrorLineNumbers == {NoneV, IntV(0), IntV(1), IntV(20)}

ErrorLineTexts == {NoneV, StrV("blahblah")}

\* the calls str(PreprocessorError(error_message, filename, line_number,
\* line)) before they are made
StrCalls ==
    {[fn |-> "__str__",
      self |-> [error_message |-> m, filename |-> f, line_number |-> n,
                line |-> l],
      at |-> "call", out |-> ""] :
        m \in ErrorMessages, f \in ErrorFilenames, n \in ErrorLineNumbers,
        l \in ErrorLineTexts}

InitStr ==
    /\ pc = "idle"
    /\ calls = <<>>
    /\ preprocessed = <<>>
    /\ buffer = <<>>
    /\ outfile = <<>>
    /\ error = NoError
    /\ nlines = 0
    /\ keep = FALSE
    /\ substitute = FALSE
    /\ call \in StrCalls

\* str(ex)
RenderError ==
    /\ call.fn = "__str__"
    /\ call.at = "call"
    /\ call' = [call EXCEPT !.out = __str__(call.self), !.at = "return"]
    /\ UNCHANGED <<pc, calls, preprocessed, buffer, outfile, error, nlines,
                   keep, substitute>>

NextStr == RenderError

SpecStr == InitStr /\ [][NextStr]_vars

----------------------------------------------------------------------------
\* Properties.

\* the frame of the k-th open block of activation c
FrameOf(c, k) == c.states[Len(c.states) - Len(c.blocks) + k]

\* the open blocks of the run: <<activation, position in its `blocks'>>
OpenBlocks ==
    UNION {{<<i, k>> : k \in 1..Len(calls[i].blocks)} : i \in 1..Len(calls)}

\* C1: in a block opened under an emitting frame, content lines are written
\* from the first branch whose condition is truthy (the #else branch when
\* there is none) and from no other branch, every content line of that
\* branch is written, and once the #else has been read one branch is the
\* selected one.
C1_FirstTruthyBranch ==
    \A p \in OpenBlocks :
        LET c == calls[p[1]]
            b == c.blocks[p[2]]
        IN  b.encl = EMIT =>
                /\ b.emitted \subseteq {b.first}
                /\ b.first \notin b.dropped
                /\ (FrameOf(c, p[2])[1] = EMIT) <=> (b.branch = b.first)
                /\ b.else => b.first \in 1..b.branch

\* a block whose first branch was suppressed and whose second was written
C1_Witness ==
    \E p \in OpenBlocks :
        LET b == calls[p[1]].blocks[p[2]]
        IN  b.encl = EMIT /\ b.first = 2 /\ b.emitted = {2} /\ b.dropped = {1}

\* C2: a block opened while the top frame is SKIP writes no content line
\* from any branch; its frame stays SKIP through every #elif and #else.
C2_NestedInSkip ==
    \A p \in OpenBlocks :
        LET c == calls[p[1]]
            b == c.blocks[p[2]]
        IN  b.encl = SKIP =>
                /\ b.emitted = {}
                /\ FrameOf(c, p[2])[1] = SKIP

\* a block opened in a skipped block, at its #else, with a suppressed line
C2_Witness ==
    \E p \in OpenBlocks :
        LET b == calls[p[1]].blocks[p[2]]
        IN  /\ p[2] >= 2
            /\ b.encl = SKIP /\ b.else /\ b.branch \in b.dropped

\* the top block of the current activation has had its #else
AfterElse == Cur.blocks # <<>> /\ Cur.blocks[Len(Cur.blocks)].else

\* the current line is a directive <op> that is matched in this step
Matching(op) == pc = "line" /\ Cur.line.op = op /\ pc' # "line"

\* the run is aborted in this step by PreprocessorError(message, ...)
AbortedWith(message) ==
    pc' = "failed" /\ error'.kind = "PreprocessorError"
                   /\ error'.message = message

\* C3: in a block that has had its #else, an #elif aborts the run with
\* 'illegal #elif after #else' and an #else aborts it with 'illegal #else
\* after #else', whatever the mode of the block and the #elif expression.
C3_IllegalAfterElse ==
    [][/\ (Matching("elif") /\ AfterElse) =>
              AbortedWith("illegal #elif after #else in same #if block")
       /\ (Matching("else") /\ AfterElse) =>
              AbortedWith("illegal #else after #else in same #if block")
      ]_vars

\* only the root frame is on the stack of the current activation
AtRoot == Len(Cur.states) = 1 /\ Cur.blocks = <<>>

\* C4: with only the root frame on the stack, an #elif aborts the run with
\* '#elif stmt without leading #if stmt' and an #else with '#else stmt
\* without leading #if stmt'; the root frame is left as it is.
C4_ElifElseAtRoot ==
    [][/\ (Matching("elif") /\ AtRoot) =>
              /\ AbortedWith("#elif stmt without leading #if stmt")
              /\ calls' = calls
       /\ (Matching("else") /\ AtRoot) =>
              /\ AbortedWith("#else stmt without leading #if stmt")
              /\ calls' = calls
      ]_vars

\* C5: a run whose top-level file has an #endif with no open block does
\* not end successfully: it is aborted with an error, whatever follows.
C5_LoneEndifAborts == pc = "done" => ~ calls[1].lone

\* C6: a run whose top-level file reaches its end with an #if, #ifdef or
\* #ifndef that no #endif has closed does not end successfully: it is
\* aborted with 'unterminated #if block'.
C6_UnterminatedAborts == pc = "done" => calls[1].blocks = <<>>

\* C7: an #error under an emitting top frame aborts the run with an error
\* that carries the message of the directive; under a skipping top frame
\* it raises nothing and the next line is read.
C7_ErrorDirective ==
    [][Matching("error") =>
          /\ (Cur.states # <<>> /\ ~ TopSkip(Cur.states)) =>
                 AbortedWith("#error: " \o Cur.line.arg)
          /\ TopSkip(Cur.states) => (pc' = "next" /\ error' = NoError)
      ]_vars

\* fname is a file of the active call chain
OnChain(fname) ==
    \E i \in 1..Len(calls) :
        absolute_path(calls[i].file) = absolute_path(fname)

\* C8: an effective #include whose target is a file of the active call
\* chain aborts the run with 'detected recursive #include' before a line of
\* that file is read again; no file is on the call chain twice.
C8_RecursiveInclude ==
    /\ [](\A i, j \in 1..Len(calls) :
             calls[i].file = calls[j].file => i = j)
    /\ [][(/\ Matching("include")
           /\ ~ TopSkip(Cur.states)
           /\ IncludeTarget(Cur).error = NoError
           /\ OnChain(IncludeTarget(Cur).fname)) =>
              /\ AbortedWith("detected recursive #include of '"
                             \o IncludeTarget(Cur).fname \o "'")
              /\ calls' = calls
              /\ nlines' = nlines
         ]_vars

\* the included file b includes its includer a
C8_Witness ==
    /\ pc = "failed"
    /\ error.message = "detected recursive #include of 'a'"
    /\ Len(calls) = 2

\* C9: on a line of the top-level file that follows a completed #include
\* (as on every line), the table maps __FILE__ to the path of the file of
\* the line and __LINE__ to the number of the line.
C9_FileAndLine ==
    (pc = "line" /\ Len(calls) = 1 /\ Len(preprocessed) > 1) =>
        /\ "__FILE__" \in DOMAIN Cur.defines
        /\ Cur.defines["__FILE__"] = StrV(Cur.file)
        /\ "__LINE__" \in DOMAIN Cur.defines
        /\ Cur.defines["__LINE__"] = IntV(Cur.line_number)

\* the value of a name in a table, a marker for an absent name
Lookup(d, name) == IF name \in DOMAIN d THEN d[name] ELSE Raised("absent")

\* C10: the included file starts with the table of the includer as it is
\* at the #include line (__FILE__ apart), and the includer goes on with the
\* table as the included file left it.
C10_TableThreaded ==
    [][/\ Len(calls') = Len(calls) + 1 =>
            \A name \in Names \ {"__FILE__"} :
                Lookup(calls'[Len(calls')].defines, name)
                    = Lookup(Cur.defines, name)
       /\ Len(calls') = Len(calls) - 1 =>
            calls'[Len(calls')].defines = Cur.defines
      ]_vars

\* line 2 of the top-level file, after an #include whose file had the one
\* line `#define X b'
C10_Witness ==
    /\ pc = "line" /\ Len(calls) = 1
    /\ Cur.line_number = 2 /\ nlines = 3
    /\ Lookup(Cur.defines, "X") = StrV("b")

----------------------------------------------------------------------------
\* Output.

\* place p is met before place q when the files are read in the order of
\* the text: at the first activation where they differ p has the smaller
\* line number, or q is the #include line of a file that p lies in (the
\* blank line kept for an #include line is written when the included file
\* has returned)
Earlier(p, q) ==
    \/ \E k \in 1..Len(p) :
          /\ k <= Len(q)
          /\ p[k] < q[k]
          /\ \A j \in 1..(k - 1) : p[j] = q[j]
    \/ /\ Len(p) > Len(q)
       /\ \A j \in 1..Len(q) : p[j] = q[j]

EncounterOrder(out) ==
    \A i, j \in 1..Len(out) : i < j => Earlier(out[i].at, out[j].at)

\* C11: the output is in encounter order: what the includer wrote before an
\* effective #include comes first, then everything the included file (and
\* the files it includes) wrote, then what the includer writes after it; and
\* while an included file is being processed no includer reads a line.
C11_EncounterOrder ==
    /\ [](/\ pc # "done" => EncounterOrder(buffer)
          /\ pc = "done" => EncounterOrder(outfile))
    /\ [][\A i \in 1..(Len(calls) - 1) :
            /\ calls'[i].file = calls[i].file
            /\ calls'[i].line_number = calls[i].line_number]_vars

\* a finished run whose output has a content line of the includer, then one
\* of an included file, then one of the includer again
C11_Witness ==
    /\ pc = "done"
    /\ \E i, j, k \in 1..Len(outfile) :
          /\ i < j /\ j < k
          /\ Len(outfile[i].at) = 1 /\ outfile[i].text # "\n"
          /\ Len(outfile[j].at) > 1 /\ outfile[j].text # "\n"
          /\ Len(outfile[k].at) = 1 /\ outfile[k].text # "\n"

\* C12: the output file is written once, by the top-level activation when
\* all input has been processed without error: until then, and for ever
\* after a failure at any depth, nothing has been written to it.
C12_WrittenOnceAtEnd ==
    /\ [](pc # "done" => outfile = <<>>)
    /\ [][outfile' # outfile =>
            /\ pc = "next" /\ pc' = "done"
            /\ Len(calls) = 1
            /\ outfile = <<>> /\ outfile' = buffer]_vars

\* a run that failed inside an included file after lines had been written
C12_Witness ==
    /\ pc = "failed"
    /\ Len(calls) > 1
    /\ buffer # <<>>
    /\ outfile = <<>>

\* the top-level file has had content lines only
PlainTop == Len(calls) = 1 /\ calls[1].plain

\* C13: a file with no directive lines comes out as it went in: line i of
\* the output is line i of the input, whatever the initial table and with
\* or without keep-lines.
C13_Identity ==
    /\ [](PlainTop =>
            /\ pc # "failed"
            /\ pc \in {"next", "done"} =>
                  /\ Len(buffer) = calls[1].line_number
                  /\ \A i \in 1..Len(buffer) :
                        /\ buffer[i].at = <<i>>
                        /\ buffer[i].text \in ContentTexts
            /\ pc = "done" => outfile = buffer)
    /\ [][PlainTop /\ pc = "line" =>
            buffer' = Append(buffer, Chunk(Cur.line.arg,
                                           <<Cur.line_number>>))]_vars

\* a finished run over three content lines, started with X defined and
\* with keep-lines
C13_Witness ==
    /\ pc = "done"
    /\ PlainTop
    /\ keep
    /\ "X" \in DOMAIN calls[1].defines
    /\ Len(outfile) = 3

\* no #include has taken effect in the run
NoInclude == Len(preprocessed) = 1

----------------------------------------------------------------------------
\* Names and values.

\* C15: under an emitting top frame the branch of `#ifdef X' is selected
\* exactly when X is a key of the table, whatever its value, and the branch
\* of `#ifndef X' exactly when X is not a key.
C15_IfdefTestsPresence ==
    [][(Matching("ifdef") \/ Matching("ifndef")) /\ Cur.states # <<>>
          /\ ~ TopSkip(Cur.states) =>
          /\ pc' = "next"
          /\ Len(calls') = Len(calls)
          /\ Len(calls'[Len(calls)].states) = Len(Cur.states) + 1
          /\ ~ TopSkip(calls'[Len(calls)].states)
                <=> IF Cur.line.op = "ifdef"
                    THEN Cur.line.arg \in DOMAIN Cur.defines
                    ELSE Cur.line.arg \notin DOMAIN Cur.defines
      ]_vars

\* the expression of the #if or #elif line being matched is evaluated
Evaluated ==
    LET st == Cur.states
        n == Len(st)
    IN  IF Cur.line.op = "if" THEN ~ TopSkip(st)
        ELSE /\ n > 0
             /\ st[n][3] = 0
             /\ st[n][2] = 0
             /\ ~ ParentSkip(st)

\* C16: on a line of the top-level file that follows a completed #include
\* (as on every line), an #if or #elif whose expression is evaluated and is
\* a name that the table does not have aborts the run with a
\* PreprocessorError that carries the path of the file of the line and the
\* number of the line.
C16_UndefinedNameAborts ==
    [][(/\ Matching("if") \/ Matching("elif")
        /\ Len(calls) = 1 /\ Len(preprocessed) > 1
        /\ Evaluated
        /\ Cur.line.arg \in Names
        /\ Cur.line.arg \notin DOMAIN Cur.defines) =>
          /\ pc' = "failed"
          /\ error'.kind = "PreprocessorError"
          /\ error'.filename = StrV(Cur.file)
          /\ error'.line_number = IntV(Cur.line_number)
      ]_vars

\* the value that the typing rule of #define gives to the <val> group: an
\* integer (decimal, 0x hexadecimal, leading-0 octal), else a float when
\* the text has a '.', else a boolean for true / false in any letter case,
\* else the text; null when there is no value
RuleValue(val) ==
    CASE val = NoValue -> NoneV
      [] val = "0"     -> IntV(0)
      [] val = "1"     -> IntV(1)
      [] val = "0x40"  -> IntV(64)
      [] val = "040"   -> IntV(32)
      [] val = "4.0"   -> FloatV(40)
      [] val \in {"false", "False"} -> BoolV(FALSE)
      [] val \in {"true", "True"}   -> BoolV(TRUE)
      [] OTHER         -> StrV(val)

\* C17: an effective `#define NAME VALUE' stores VALUE typed by the rule
\* above (so that after `#define X false' an `#if X' does not select its
\* branch), and null when the line has no value.
C17_DefineTyping ==
    [][Matching("define") /\ ~ TopSkip(Cur.states) =>
          /\ pc' = "next"
          /\ Cur.line.arg \in DOMAIN calls'[Len(calls)].defines
          /\ calls'[Len(calls)].defines[Cur.line.arg]
                = RuleValue(Cur.line.val)
          /\ Truthy(calls'[Len(calls)].defines[Cur.line.arg])
                = Truthy(RuleValue(Cur.line.val))
      ]_vars

\* the value that the typing rule gives to a value text: an integer by the
\* hexadecimal, octal and decimal forms, else a float when the text has a
\* '.', else a boolean for true / false in any letter case, else the text
\* as it is
TypedByRule(val) ==
    CASE val = <<>> -> StrV("")
      [] val = <<"1">> -> IntV(1)
      [] val = <<"4", "0">> -> IntV(40)
      [] val = <<"0", "x", "4", "0">> -> IntV(64)
      [] val = <<"0", "X", "1", "f">> -> IntV(31)
      [] val = <<"0", "4", "0">> -> IntV(32)
      [] val = <<"0", "8">> -> StrV("08")
      [] val = <<"-", "7">> -> IntV(-7)
      [] val = <<"4", ".", "0">> -> FloatV(40)
      [] val = <<"0", ".", "5">> -> FloatV(5)
      [] val = <<".">> -> StrV(".")
      [] val = <<"a", ".", "b">> -> StrV("a.b")
      [] val = <<"f", "a", "l", "s", "e">> -> BoolV(FALSE)
      [] val = <<"F", "A", "l", "s", "e">> -> BoolV(FALSE)
      [] val = <<"T", "R", "U", "E">> -> BoolV(TRUE)
      [] val = <<"F", "a", "l", "S">> -> StrV("FalS")
      [] val = <<"a", "h", "=", "3", " ">> -> StrV("ah=3 ")
      [] val = <<"2", "e", "-", "2", "3">> -> StrV("2e-23")

\* C18: parse_definition_expr splits at the first '=' only, returns the
\* name without the white space around it and the value typed by the rule
\* above, returns (NAME, default_value) for an argument without '=', and
\* raises ValueError when the name is empty or white space only.
C18_ParseDefinitionExpr ==
    (call.fn = "parse_definition_expr" /\ call.at \in {"return", "raise"}) =>
        IF call.name = <<>>
        THEN call.at = "raise" /\ call.error = "ValueError"
        ELSE /\ call.at = "return"
             /\ call.ret[1] = Str(call.name)
             /\ call.ret[2] = IF call.hasvalue THEN TypedByRule(call.val)
                              ELSE call.default_value

\* the call parse_definition_expr(' A =ah=3 ') has returned
C18_Witness ==
    /\ call.fn = "parse_definition_expr"
    /\ call.at = "return"
    /\ call.expr = <<" ", "A", " ", "=", "a", "h", "=", "3", " ">>
    /\ call.ret = <<"A", StrV("ah=3 ")>>

----------------------------------------------------------------------------
\* Content types.

\* the call of get_comment_group_for_path() has a content type
Guessed == call.fn = "get_comment_group_for_path" /\ call.at # "guess"

\* the base name and the extension of the path of the call, from what the
\* path was built from
CallBasename == call.stem \o Dotted(call.suffixes)

CallExtension ==
    <<".">> \o SuffixText(call.suffixes[Len(call.suffixes)])

\* C19: the content type is given by the first of these rules that
\* matches: the base name is in the filename table, the extension ('.' and
\* the last dot-segment) is in the extension table, a regular expression
\* matches the base name; a base name with an extension rule and a matching
\* expression gets the type of the extension.  After that a file that
\* exists and begins with '<?xml' gets the label XML.
C19_ContentTypeRules ==
    Guessed =>
        LET db == call.db
            t == call.content_type
        IN  IF /\ call.content # NoFile
               /\ Len(call.content) >= 5
               /\ SubSeq(call.content, 1, 5) = <<"<", "?", "x", "m", "l">>
            THEN t = "XML"
            ELSE IF CallBasename \in DOMAIN db.filename_map
            THEN t = db.filename_map[CallBasename]
            ELSE IF call.suffixes # <<>>
                    /\ CallExtension \in DOMAIN db.extension_map
            THEN t = db.extension_map[CallExtension]
            ELSE IF \E r \in DOMAIN db.regexp_map : Search(r, CallBasename)
            THEN \E r \in DOMAIN db.regexp_map :
                    Search(r, CallBasename) /\ t = db.regexp_map[r]
            ELSE t = NoType

\* d/M.x.py, a file that is not XML, with an extension rule for .py and
\* the expression ^M registered for another type, and no filename rule:
\* the type is the one of the extension
C19_Witness ==
    /\ Guessed
    /\ call.pathname = <<"d", "/", "M", ".", "x", ".", "p", "y">>
    /\ call.content = <<"<", "?", "x", "m">>
    /\ call.db.filename_map = <<>>
    /\ <<".", "p", "y">> \in DOMAIN call.db.extension_map
    /\ Regexp(TRUE, <<"M">>) \in DOMAIN call.db.regexp_map
    /\ call.db.regexp_map[Regexp(TRUE, <<"M">>)] = "Makefile"
    /\ call.content_type = "python"

\* the call of get_comment_group_for_path() has returned or raised
Finished ==
    call.fn = "get_comment_group_for_path" /\ call.at \in {"return", "raise"}

\* C20: with no content type for the path and no default the call raises
\* ValueError 'No content type defined'; the default is used in that
\* unresolved case only; a content type of the path that has no comment
\* group raises KeyError 'No comment groups', with or without a default.
C20_DefaultAndErrors ==
    Finished =>
        LET groups == call.db.comment_groups
            t == call.content_type
            dct == call.default_content_type
            o == call.out
        IN  /\ (t = NoType /\ dct = NoType) =>
                  /\ ~ o.ok
                  /\ o.kind = "ValueError"
                  /\ o.message = "No content type defined for file path: "
                                  \o Str(call.pathname)
            /\ (t = NoType /\ dct # NoType /\ dct \in DOMAIN groups) =>
                  o = Return(groups[dct])
            /\ (t # NoType /\ t \in DOMAIN groups) =>
                  o = Return(groups[t])
            /\ (t # NoType /\ t \notin DOMAIN groups) =>
                  /\ ~ o.ok
                  /\ o.kind = "KeyError"
                  /\ o.message = "No comment groups for content type "
                        \o t \o " for file " \o Str(call.pathname)
                        \o " found"

\* a path whose content type has no comment group, with a default that
\* has one: the call has raised KeyError
C20_Witness ==
    /\ Finished
    /\ call.content_type = "structured-text"
    /\ call.default_content_type = "python"
    /\ call.at = "raise"
    /\ call.out.kind = "KeyError"

----------------------------------------------------------------------------
\* main(): preprocess() runs inside `try: ... except PreprocessorError',
\* whose handler writes "pepe: error: ..." and returns 1; after the try
\* statement main returns 0.  An exception of another class leaves main(),
\* so main returns nothing and sys.exit() is not reached.
main ==
    IF pc = "done" THEN Return(IntV(0))
    ELSE IF pc = "failed" /\ error.kind = "PreprocessorError" THEN Return(IntV(1))
    ELSE IF pc = "failed" THEN Raise(error.kind, error.message)
    ELSE Return(NoneV)

\* C21: every failure of a run is a PreprocessorError, so that main reports
\* it and returns 1, and main returns 0 only when the run succeeded.
C21_FailureIsPreprocessorError ==
    /\ pc = "failed" => error.kind = "PreprocessorError" /\ main = Return(IntV(1))
    /\ main = Return(IntV(0)) => pc = "done" /\ error = NoError

----------------------------------------------------------------------------
\* a field of a PreprocessorError that counts as absent: None, and the
\* values no file or line has, the empty name and the line number 0
Absent(v) == v \in {NoneV, StrV(""), IntV(0)}

\* C22: a PreprocessorError renders as "<filename>:<lineNumber>: <message>";
\* an absent file name or line number is left out together with its
\* separator, and the text of the offending line is no part of the string.
C22_Rendering ==
    call.fn = "__str__" /\ call.at = "return" =>
        LET e == call.self
            f == IF e.filename \in {NoneV, StrV("")} THEN ""
                 ELSE e.filename.s
            n == CASE e.line_number = IntV(1)  -> "1"
                   [] e.line_number = IntV(20) -> "20"
                   [] OTHER                    -> ""
        IN  /\ Absent(e.filename) = (f = "")
            /\ Absent(e.line_number) = (n = "")
            /\ call.out =
                   CASE f # "" /\ n # "" -> f \o ":" \o n \o ": "
                                               \o e.error_message
                     [] f # "" /\ n = "" -> f \o ": " \o e.error_message
                     [] f = "" /\ n # "" -> n \o ": " \o e.error_message
                     [] OTHER            -> e.error_message

\* an error with a line number and a line text but no file name has been
\* rendered
C22_Witness ==
    /\ call.fn = "__str__"
    /\ call.at = "return"
    /\ call.self.filename = NoneV
    /\ call.self.line_number = IntV(20)
    /\ call.self.line = StrV("blahblah")
    /\ call.out = "20: whatever"

----------------------------------------------------------------------------
\* the change of the stack depth that the claim gives a line
DepthChange(op) ==
    CASE op \in {"if", "ifdef", "ifndef"} -> 1
      [] op = "endif"                     -> -1
      [] OTHER                            -> 0

\* C23: in every file the stack depth is 1 + (#if/#ifdef/#ifndef lines read)
\* - (#endif lines read): a file starts at depth 1, each opening line that
\* raises nothing adds one frame, each #endif removes one, and no other
\* line (#elif, #else, #define, #undef, #include, #error, content), nor an
\* included file, changes the depth.
C23_StackDepth ==
    /\ \A i \in 1..Len(calls) : Len(calls[i].states) = 1
    /\ [][\A i \in 1..Len(calls') :
            IF i > Len(calls) THEN Len(calls'[i].states) = 1
            ELSE Len(calls'[i].states) = Len(calls[i].states)
                    + (IF /\ i = Len(calls)
                          /\ Len(calls') = Len(calls)
                          /\ pc = "line"
                          /\ pc' = "next"
                       THEN DepthChange(Cur.line.op) ELSE 0)]_vars

\* a file has closed the inner one of two nested blocks, the outer one of
\* which is in its #else branch
C23_Witness ==
    /\ pc = "next"
    /\ Cur.line.op = "endif"
    /\ Len(Cur.states) = 2
    /\ Cur.states[2][3] = 1
    /\ Len(Cur.blocks) = 1

----------------------------------------------------------------------------
\* the top frame of the file being read is a SKIP frame
InSkip ==
    /\ Len(Cur.states) > 0
    /\ Cur.states[Len(Cur.states)][1] = SKIP

\* C24: while the top frame is SKIP, a #define, #undef, #include or #error
\* line does nothing: it raises no error, whatever the include target is,
\* and leaves the variable table, the stack, the set of included files
\* and the output as they are, but for the blank line of keep-lines.
C24_NoOpInSkip ==
    [][/\ pc = "line"
       /\ Cur.line.op \in {"define", "undef", "include", "error"}
       /\ InSkip
       => /\ pc' = "next"
          /\ error' = NoError
          /\ calls' = calls
          /\ preprocessed' = preprocessed
          /\ buffer' = buffer \o (IF keep THEN <<Chunk("\n", Place(calls))>>
                                  ELSE <<>>)
          /\ outfile' = outfile]_vars

\* with keep-lines, line 4 of the top-level file, an #include of a file
\* that does not exist, has been passed over in SKIP mode: four lines have
\* been replaced by blank lines and no file has been included
C24_Witness ==
    /\ pc = "next"
    /\ keep
    /\ InSkip
    /\ Cur.line = Line("include", "nx", "", "fname")
    /\ Cur.line_number = 4
    /\ error = NoError
    /\ preprocessed = <<absolute_path(TopFile)>>
    /\ Len(buffer) = 4
    /\ Cur.defines["__LINE__"] = IntV(4)

----------------------------------------------------------------------------
\* the run has ended, with the output written or with an exception
Terminated == pc \in {"done", "failed"}

\* C25: every run ends, with success or with an error, whatever the
\* #include lines name (the file itself and its includers included); a
\* file is entered only if it was never entered before in the run, and
\* within a file the loop only moves forward, one line at a time.
C25_Terminates ==
    /\ <>Terminated
    /\ [](\A i, j \in 1..Len(preprocessed) :
             preprocessed[i] = preprocessed[j] => i = j)
    /\ [][/\ \/ preprocessed' = preprocessed
              \/ /\ Len(preprocessed') = Len(preprocessed) + 1
                 /\ SubSeq(preprocessed', 1, Len(preprocessed)) = preprocessed
          /\ (Len(calls') > Len(calls) =>
                 /\ Len(calls') = Len(calls) + 1
                 /\ SubSeq(calls', 1, Len(calls)) = calls
                 /\ calls'[Len(calls')].line_number = 0
                 /\ absolute_path(calls'[Len(calls')].file)
                        \notin Range(preprocessed)
                 /\ preprocessed'
                        = Append(preprocessed,
                                 absolute_path(calls'[Len(calls')].file)))
          /\ (Len(calls') <= Len(calls) =>
                 \A i \in 1..Len(calls') :
                     calls'[i].line_number =
                         IF i = Len(calls) /\ pc = "next" /\ pc' = "line"
                         THEN calls[i].line_number + 1
                         ELSE calls[i].line_number)]_vars

\* a run has ended with the error of a recursive #include, raised in a
\* file that was itself included
C25_Witness ==
    /\ Terminated
    /\ Len(calls) = 2
    /\ error.kind = "PreprocessorError"
    /\ Cur.line.op = "include"
    /\ FindInclude(Cur.file, Cur.line.arg) = TopFile
    /\ preprocessed = <<absolute_path(TopFile), absolute_path(Cur.file)>>

----------------------------------------------------------------------------
\* C26: the error of a recursive #include is raised only for a target that
\* is a file of the active call chain; an effective #include of a file
\* that is not on the chain, also one that was included before and has
\* been left, enters the file without error.
C26_OnlyGenuineCycles ==
    [][LET t == IncludeTarget(Cur)
       IN  /\ Matching("include")
           /\ ~ InSkip
           /\ t.error = NoError
           /\ ~ OnChain(t.fname)
           /\ t.fname \notin UndeterminedFiles
           => /\ pc' = "next"
              /\ error' = NoError
              /\ Len(calls') = Len(calls) + 1
              /\ calls'[Len(calls')].file = t.fname]_vars

----------------------------------------------------------------------------
\* C27: the stack of conditional frames belongs to one file: an included
\* file starts with the root EMIT frame alone, no step changes the stack of
\* an includer (so an #endif of an included file closes no #if of the
\* includer, and the stack of the includer is after the #include what it
\* was before), and an included file with an #if, #ifdef or #ifndef still
\* open at its end does not return into the includer.
C27_StackPerFile ==
    [][/\ Len(calls') > Len(calls) =>
              calls'[Len(calls')].states = <<<<EMIT, 0, 0>>>>
       /\ \A i \in 1..Len(calls) :
              (i < Len(calls) \/ Len(calls') # Len(calls)) /\ i <= Len(calls')
              => calls'[i].states = calls[i].states
       /\ Len(calls') < Len(calls) => Cur.blocks = <<>>]_vars

----------------------------------------------------------------------------
\* C28: under a SKIP top frame the expression of an #if, #ifdef or #ifndef
\* is not evaluated, and neither is the expression of an #elif (of a block
\* that has had no #else) when a branch of its block has been selected
\* before or the frame below is SKIP: whatever the expression is, a name
\* that is not defined or a text that is no expression, no error is raised
\* and the branch is a SKIP branch.
C28_LazyEvaluation ==
    [][LET st == Cur.states
           n == Len(st)
           top == calls'[Len(calls')].states
       IN  /\ (/\ pc = "line"
               /\ Cur.line.op \in {"if", "ifdef", "ifndef"}
               /\ InSkip)
              => /\ pc' = "next"
                 /\ error' = NoError
                 /\ top = Append(st, <<SKIP, 0, 0>>)
           /\ (/\ pc = "line"
               /\ Cur.line.op = "elif"
               /\ n >= 1
               /\ st[n][3] = 0
               /\ \/ st[n][2] # 0
                  \/ n > 1 /\ st[n - 1][1] = SKIP)
              => /\ pc' = "next"
                 /\ error' = NoError
                 /\ Len(top) = n
                 /\ top[n][1] = SKIP
                 /\ top[n][2] = st[n][2]]_vars

\* an #elif with a text that is no expression has been passed over after
\* a branch of its block had been selected
C28_Witness ==
    /\ pc = "next"
    /\ error = NoError
    /\ Cur.line = Line("elif", "1 +", "", "")
    /\ Cur.states = <<<<EMIT, 0, 0>>, <<SKIP, 1, 0>>>>
    /\ PyEvalExpr(Cur.line.arg, Cur.defines).t = "raise"

----------------------------------------------------------------------------
\* the line being processed is a #define (op = "define") or an #undef
\* (op = "undef") of the name x that takes effect
Effective(op, x) ==
    /\ pc = "line"
    /\ Cur.line.op = op
    /\ Cur.line.arg = x
    /\ ~ InSkip

\* C29: a name other than __FILE__ and __LINE__ is in the table exactly if
\* the last effective directive on it was a #define, or it was defined at
\* the start and no effective #undef has named it: an effective #define
\* puts the name in the table, an effective #undef takes it out, raises
\* nothing and changes nothing when the name is absent, and no other step
\* changes whether the name is in the table; an #ifdef of a name that is
\* absent then pushes a SKIP frame.
C29_DefinedIffLastDefine ==
    [][\A x \in UserNames :
          LET T == Cur.defines
              U == calls'[Len(calls')].defines
          IN  /\ Effective("define", x) =>
                     pc' = "next" /\ error' = NoError /\ x \in DOMAIN U
              /\ Effective("undef", x) =>
                     /\ pc' = "next"
                     /\ error' = NoError
                     /\ x \notin DOMAIN U
                     /\ x \notin DOMAIN T => U = T
              /\ ~ Effective("define", x) /\ ~ Effective("undef", x) =>
                     (x \in DOMAIN U <=> x \in DOMAIN T)
              /\ Effective("ifdef", x) /\ x \notin DOMAIN T =>
                     /\ pc' = "next"
                     /\ calls'[Len(calls')].states
                            = Append(Cur.states, <<SKIP, 0, 0>>)]_vars

\* line 3 of the top-level file, an #ifdef X, has pushed a SKIP frame with
\* X not in the table, as after '#define X 1' and '#undef X'
C29_Witness ==
    /\ pc = "next"
    /\ Len(calls) = 1
    /\ Cur.line_number = 3
    /\ Cur.line = Line("ifdef", "X", "", "")
    /\ Cur.states = <<<<EMIT, 0, 0>>, <<SKIP, 0, 0>>>>
    /\ "X" \notin DOMAIN Cur.defines
    /\ Len(preprocessed) = 1

----------------------------------------------------------------------------
\* the regular expressions of the database that match the base name of
\* the call, in the order of their registration
MatchingRegistered ==
    SelectSeq(call.registered,
              LAMBDA r : r \in DOMAIN call.db.regexp_map
                         /\ Search(r, CallBasename))

\* C30: for a base name with no filename rule and no extension rule that
\* regular expressions of different content types match, the content type
\* is the one of the matching expression that was registered first.
C30_FirstRegisteredRegexp ==
    /\ Guessed
    /\ ~ (/\ call.content # NoFile
          /\ Len(call.content) >= 5
          /\ SubSeq(call.content, 1, 5) = <<"<", "?", "x", "m", "l">>)
    /\ CallBasename \notin DOMAIN call.db.filename_map
    /\ ~ (/\ call.suffixes # <<>>
          /\ CallExtension \in DOMAIN call.db.extension_map)
    /\ \E q, r \in Range(MatchingRegistered) :
          call.db.regexp_map[q] # call.db.regexp_map[r]
    => call.content_type = call.db.regexp_map[MatchingRegistered[1]]

----------------------------------------------------------------------------
\* the text that the #include line being processed names: the <fname>
\* group, or the value of the variable of the second form when it is a
\* string; "" otherwise
IncludeText ==
    IF Cur.line.form = "fname" THEN Cur.line.arg
    ELSE IF Cur.line.arg \in DOMAIN Cur.defines
            /\ Cur.defines[Cur.line.arg].t = "str"
    THEN Cur.defines[Cur.line.arg].s
    ELSE ""

\* the candidates of the text f: f in the directory of the including
\* file, then in each include path in the order given
Candidates(f) ==
    <<JoinNorm(Dirname(Cur.file), f), JoinNorm("inc", f), JoinNorm("inc2", f)>>

\* C31: an effective #include hands to preprocess() the first of the
\* candidates (directory of the including file, then the include paths in
\* their order) that exists, whatever exists in a later directory, and
\* aborts with the include-not-found error when none exists; for
\* '#include VAR' the text looked for is the value of VAR in the table.
\* The file found is entered unless the prologue of preprocess() rejects
\* that very file.
C31_SearchOrder ==
    [][/\ Matching("include")
       /\ ~ InSkip
       /\ IncludeText # ""
       => LET c == Candidates(IncludeText)
              hits == {i \in 1..Len(c) : c[i] \in ExistingFiles}
              first == c[CHOOSE i \in hits : \A j \in hits : i <= j]
          IN  IF hits = {}
              THEN /\ AbortedWith("could not find #include'd file "
                                  \o IncludeText)
                   /\ calls' = calls
              ELSE \/ /\ pc' = "next"
                      /\ Len(calls') = Len(calls) + 1
                      /\ calls'[Len(calls')].file = first
                   \/ AbortedWith("detected recursive #include of '"
                                  \o first \o "'")
                   \/ /\ pc' = "failed"
                      /\ error'.kind = "ValueError"
                      /\ error'.message
                             = "No content type defined for file path: "
                               \o first]_vars

\* a names inc/c, which is found in the first include path although the
\* second has a c too, and inc/c names b, which is found in the directory
\* of inc/c although the directory of a has a b too
C31_Witness ==
    /\ pc = "next"
    /\ Len(calls) = 3
    /\ calls[1].line = Line("include", "c", "", "fname")
    /\ calls[2].file = "inc/c"
    /\ calls[2].line = Line("include", "b", "", "fname")
    /\ calls[3].file = "inc/b"
    /\ {"b", "inc2/c"} \subseteq ExistingFiles

----------------------------------------------------------------------------
\* The substitution that replaces in the line itself: the characters of
\* the line are marked TRUE, the characters of a value that was put in are
\* marked FALSE, and a name is only found in characters of the line.
Marked(text, b) == [i \in 1..Len(text) |-> <<text[i], b>>]

RECURSIVE ReplaceInLine(_, _, _)
ReplaceInLine(items, old, new) ==
    IF Len(items) < Len(old) THEN items
    ELSE IF SubSeq(items, 1, Len(old)) = Marked(old, TRUE)
    THEN Marked(new, FALSE)
         \o ReplaceInLine(SubSeq(items, Len(old) + 1, Len(items)), old, new)
    ELSE <<Head(items)>> \o ReplaceInLine(Tail(items), old, new)

\* the names applied longest first, names of one length in any order
RECURSIVE NamesInLine(_, _, _)
NamesInLine(items, d, names) ==
    IF names = {} THEN {items}
    ELSE UNION {NamesInLine(ReplaceInLine(items, Chars(n), StrChars(d[n])),
                            d, names \ {n}) : n \in Longest(names)}

\* the texts a line can become when each name in it is replaced by the
\* text of its value
ValuesForNames(line, d) ==
    {[i \in 1..Len(items) |-> items[i][1]] :
        items \in NamesInLine(Marked(line, TRUE), d, DOMAIN d)}

\* C32: with substitution, a content line under an EMIT top frame is
\* written with each defined name in it replaced by the text of the value
\* of that name, the names taken longest first, so that where the line has
\* the longer of two names, one a part of the other, the output has the
\* value of the longer one; without substitution the line is written as
\* it is; a content line under a SKIP top frame is not written.
C32_Substitution ==
    [][Matching("text") /\ Len(Cur.states) > 0
       => /\ pc' = "next"
          /\ outfile' = outfile
          /\ IF InSkip
             THEN buffer' = buffer \o (IF keep
                                       THEN <<Chunk("\n", Place(calls))>>
                                       ELSE <<>>)
             ELSE \E t \in (IF substitute
                            THEN ValuesForNames(Cur.line.arg, Cur.defines)
                            ELSE {Cur.line.arg}) :
                     buffer' = Append(buffer, Chunk(t, Place(calls)))]_vars

----------------------------------------------------------------------------
\* every frame of the stack st is an EMIT frame
AllEmit(st) == \A k \in 1..Len(st) : st[k][1] = EMIT

\* C33: in the stack of every file no EMIT frame is above a SKIP frame, so
\* when the top frame is EMIT every frame below it is EMIT; a content
\* line is written only when every frame of its file, and of the files
\* that include it, is an EMIT frame.
C33_NoEmitAboveSkip ==
    /\ [](\A i \in 1..Len(calls) :
             \A k, m \in 1..Len(calls[i].states) :
                 k < m /\ calls[i].states[m][1] = EMIT
                 => calls[i].states[k][1] = EMIT)
    /\ [][/\ Matching("text")
          /\ Len(buffer') + Len(outfile') > Len(buffer) + Len(outfile)
          /\ (buffer' \o outfile')[Len(buffer') + Len(outfile')].text
                 = Cur.line.arg
          => \A i \in 1..Len(calls) : AllEmit(calls[i].states)]_vars

\* a block opened inside a skipped branch has had its #else and stays a
\* SKIP frame
C33_Witness ==
    /\ pc = "next"
    /\ Cur.line.op = "else"
    /\ Len(Cur.states) = 3
    /\ Cur.states[2][1] = SKIP
    /\ Cur.states[3] = <<SKIP, 0, 1>>

----------------------------------------------------------------------------
\* C34: the frame of a block (a frame pushed by #if, #ifdef or #ifndef) has
\* hasEmitted set whenever its mode is EMIT, and as long as the block is
\* open its hasEmitted and hasElse are never reset; an #elif or #else of
\* a block whose hasEmitted is set leaves a SKIP frame.
C34_FlagsMonotone ==
    /\ [](\A p \in OpenBlocks :
             FrameOf(calls[p[1]], p[2])[1] = EMIT
             => FrameOf(calls[p[1]], p[2])[2] = 1)
    /\ [][/\ \A i \in 1..Len(calls) :
                i <= Len(calls') =>
                \A k \in 1..Len(calls[i].blocks) :
                    k <= Len(calls'[i].blocks) =>
                    /\ FrameOf(calls'[i], k)[2] >= FrameOf(calls[i], k)[2]
                    /\ FrameOf(calls'[i], k)[3] >= FrameOf(calls[i], k)[3]
          /\ (/\ pc = "line"
              /\ pc' = "next"
              /\ Cur.line.op \in {"elif", "else"}
              /\ Len(Cur.blocks) > 0
              /\ FrameOf(Cur, Len(Cur.blocks))[2] = 1)
             => FrameOf(calls'[Len(calls')], Len(Cur.blocks))[1] = SKIP]_vars

\* the second #elif of a block whose first branch was selected: the frame
\* is still a SKIP frame with hasEmitted set
C34_Witness ==
    /\ pc = "next"
    /\ Cur.line.op = "elif"
    /\ Cur.line_number = 3
    /\ Len(Cur.blocks) = 1
    /\ Cur.blocks[1].branch = 3
    /\ Cur.blocks[1].first = 1
    /\ Cur.states = <<<<EMIT, 0, 0>>, <<SKIP, 1, 0>>>>
====
